---- MODULE Spec2Model ----
(***************************************************************************)
(* Streaming chat client: the response decoder of streamGeminiResponse     *)
(* (frame assembly, line parsing, reasoning/answer classification), the    *)
(* request it builds, and the exchange life cycle driven by the handlers   *)
(* of App (send, edit, retry, delete, stop, settings) and of ChatInput     *)
(* (send, file reads, mode selector).                                      *)
(*                                                                         *)
(* Exchanges are numbered in the order in which                            *)
(* triggerApiCall is called; the record of an exchange holds the closures  *)
(* of its call and, for the properties, what it was called with and what   *)
(* it has delivered.                                                       *)
(*                                                                         *)
(* Strings are sequences of tokens.  On the wire a token is a tuple:       *)
(* <<"nl">> is "\n", <<"sp">> one whitespace character, <<"data:">> the    *)
(* five characters "data:", <<"[DONE]">> the sentinel, <<"cmt">> a comment *)
(* run, and a JSON object text is the pair <<"jo", p>> <<"jc", p>> (its    *)
(* opening and closing half, so that a chunk boundary can fall inside it). *)
(* Inside a payload, text is a sequence of TLA+ strings; the tags          *)
(* "<think>" and "</think>" are two tokens each.                           *)
(***************************************************************************)
EXTENDS Integers, Sequences, FiniteSets, TLC

VARIABLES messages, isLoading, showSettings, abortControllerRef, apiKey, mode,
          systemPrompt, ex, nextEx, reading

vars == <<messages, isLoading, showSettings, abortControllerRef, apiKey, mode, systemPrompt,
          ex, nextEx, reading>>

(***************************** bounds **************************************)
MaxLines == 2
MaxItems == 2
MaxSegs == 2
MaxExchanges == 2

(***************************** tokens **************************************)
NL == <<"nl">>
SP == <<"sp">>
DATA == <<"data:">>
DONE == <<"[DONE]">>
CMT == <<"cmt">>
JO(p) == <<"jo", p>>
JC(p) == <<"jc", p>>

StartTag == <<"<th", "ink>">>
EndTag == <<"</th", "ink>">>
StopMarker == <<" [stopped]">>
MinKeyLen == 5

(************************ JavaScript string helpers ************************)
RECURSIVE TrimLeft(_)
TrimLeft(s) == IF s # <<>> /\ Head(s) = SP THEN TrimLeft(Tail(s)) ELSE s

RECURSIVE TrimRight(_)
TrimRight(s) ==
  IF s # <<>> /\ s[Len(s)] = SP THEN TrimRight(SubSeq(s, 1, Len(s) - 1)) ELSE s

Trim(s) == TrimRight(TrimLeft(s))

StartsWith(s, p) == Len(s) >= Len(p) /\ SubSeq(s, 1, Len(p)) = p

\* index of the first occurrence of pat in s, 0 when there is none
IndexOf(s, pat) ==
  LET hits == {i \in 1..(Len(s) - Len(pat) + 1) : SubSeq(s, i, i + Len(pat) - 1) = pat}
  IN IF hits = {} THEN 0 ELSE CHOOSE i \in hits : \A j \in hits : i <= j

Includes(s, pat) == IndexOf(s, pat) # 0

\* String.prototype.split(pat): every part between occurrences of pat
RECURSIVE Split(_, _)
Split(s, pat) ==
  LET i == IndexOf(s, pat)
  IN IF i = 0 THEN <<s>>
     ELSE <<SubSeq(s, 1, i - 1)>> \o Split(SubSeq(s, i + Len(pat), Len(s)), pat)

\* parts[k] || "" for a zero-based index k
PartOr(parts, k) == IF k + 1 <= Len(parts) THEN parts[k + 1] ELSE <<>>

\* a || b || ... over strings: the first non-empty one, else ""
RECURSIVE FirstTruthy(_)
FirstTruthy(ss) ==
  IF ss = <<>> THEN <<>>
  ELSE IF Head(ss) # <<>> THEN Head(ss) ELSE FirstTruthy(Tail(ss))

\* Array.prototype.join('')
RECURSIVE Join(_)
Join(ss) == IF ss = <<>> THEN <<>> ELSE Head(ss) \o Join(Tail(ss))

(***************************** payloads ************************************)
\* A reasoning_details element: a string (kind "str", text s) or an object
\* (kind "obj") whose absent keys are empty.
StrItem(s) ==
  [kind |-> "str", s |-> s, t |-> <<>>, text |-> <<>>, content |-> <<>>, reasoning |-> <<>>]
ObjItem(t, text, content, reasoning) ==
  [kind |-> "obj", s |-> <<>>, t |-> t, text |-> text, content |-> content,
   reasoning |-> reasoning]
NoItem == ObjItem(<<>>, <<>>, <<>>, <<>>)

\* The reasoning_details field: absent, a string, a list or an object.
RdAbsent == [kind |-> "absent", s |-> <<>>, items |-> <<>>, o |-> NoItem]
RdStr(s) == [kind |-> "str", s |-> s, items |-> <<>>, o |-> NoItem]
RdList(items) == [kind |-> "list", s |-> <<>>, items |-> items, o |-> NoItem]
RdObj(o) == [kind |-> "obj", s |-> <<>>, items |-> <<>>, o |-> o]

\* A deserialized record: usage (0 when absent) and choices[0].delta.
Payload(usage, hasDelta, rd, reasoning, rc, content) ==
  [usage |-> usage, hasDelta |-> hasDelta, rd |-> rd, reasoning |-> reasoning,
   rc |-> rc, content |-> content]
Delta(rd, reasoning, rc, content) == Payload(0, TRUE, rd, reasoning, rc, content)
ContentOnly(c) == Delta(RdAbsent, <<>>, <<>>, c)

\* JSON.parse(dataStr): succeeds exactly on one complete object text,
\* leading whitespace allowed.
JsonOk(dataStr) ==
  LET t == TrimLeft(dataStr)
  IN Len(t) = 2 /\ t[1][1] = "jo" /\ t[2][1] = "jc" /\ t[1][2] = t[2][2]
JsonParse(dataStr) == TrimLeft(dataStr)[1][2]

(************************** content classifier *****************************)
\* an extraction that knows only the text key of an object element
ItemTextOnlyText(item) == IF item.kind = "str" THEN item.s ELSE item.text

\* text of one reasoning_details list element
ItemText(item) ==
  IF item.kind = "str" THEN item.s
  ELSE FirstTruthy(<<item.t, item.text, item.content, item.reasoning>>)

\* JavaScript truthiness of delta.reasoning_details
RdTruthy(rd) == rd.kind \in {"list", "obj"} \/ (rd.kind = "str" /\ rd.s # <<>>)

\* explicitReasoning of one delta
ExplicitReasoning(delta) ==
  IF RdTruthy(delta.rd)
  THEN CASE delta.rd.kind = "list" ->
              Join(SelectSeq([i \in DOMAIN delta.rd.items |-> ItemText(delta.rd.items[i])],
                             LAMBDA t : t # <<>>))
         [] delta.rd.kind = "str" -> delta.rd.s
         [] OTHER -> FirstTruthy(<<delta.rd.o.t, delta.rd.o.text, delta.rd.o.content>>)
  ELSE IF delta.reasoning # <<>> THEN delta.reasoning
  ELSE IF delta.rc # <<>> THEN delta.rc
  ELSE <<>>

\* a classifier that looks at the tags of each content alone
InBandStateless(content, inside) ==
  IF content = <<>>
  THEN [content |-> content, derived |-> <<>>, inside |-> inside]
  ELSE IF Includes(content, StartTag)
  THEN LET parts == Split(content, StartTag)
       IN [content |-> parts[1], derived |-> PartOr(parts, 1), inside |-> TRUE]
  ELSE IF Includes(content, EndTag)
  THEN LET parts == Split(content, EndTag)
       IN [content |-> PartOr(parts, 1), derived |-> parts[1], inside |-> FALSE]
  ELSE [content |-> content, derived |-> <<>>, inside |-> inside]

\* a classifier that takes the first half of a tag at the end of a content
\* for the tag
InBandPartialTag(content, inside) ==
  IF content = <<>>
  THEN [content |-> content, derived |-> <<>>, inside |-> inside]
  ELSE IF Includes(content, StartTag)
  THEN LET parts == Split(content, StartTag)
       IN [content |-> parts[1], derived |-> PartOr(parts, 1), inside |-> TRUE]
  ELSE IF Includes(content, EndTag)
  THEN LET parts == Split(content, EndTag)
       IN [content |-> PartOr(parts, 1), derived |-> parts[1], inside |-> FALSE]
  ELSE IF content[Len(content)] = StartTag[1]
  THEN [content |-> SubSeq(content, 1, Len(content) - 1), derived |-> <<>>, inside |-> TRUE]
  ELSE IF content[Len(content)] = EndTag[1]
  THEN [content |-> <<>>, derived |-> SubSeq(content, 1, Len(content) - 1), inside |-> FALSE]
  ELSE IF inside
  THEN [content |-> <<>>, derived |-> content, inside |-> inside]
  ELSE [content |-> content, derived |-> <<>>, inside |-> inside]

\* the <think> handling of one content string under the tag flag inside
InBand(content, inside) ==
  IF content = <<>>
  THEN [content |-> content, derived |-> <<>>, inside |-> inside]
  ELSE IF Includes(content, StartTag)
  THEN LET parts == Split(content, StartTag)
       IN [content |-> parts[1], derived |-> PartOr(parts, 1), inside |-> TRUE]
  ELSE IF Includes(content, EndTag)
  THEN LET parts == Split(content, EndTag)
       IN [content |-> PartOr(parts, 1), derived |-> parts[1], inside |-> FALSE]
  ELSE IF inside
  THEN [content |-> <<>>, derived |-> content, inside |-> inside]
  ELSE [content |-> content, derived |-> <<>>, inside |-> inside]

\* a combination in which the explicit field suppresses the in-band text
FinalReasoningExclusive(explicit, derived) ==
  IF explicit # <<>> THEN explicit ELSE derived

\* finalReasoning of one event
FinalReasoning(explicit, derived) == explicit \o derived

(************************ turns and the UI callback ************************)
Turn(id, role, text, streaming) ==
  [id |-> id, role |-> role, text |-> text, reasoning |-> <<>>, isStreaming |-> streaming,
   usage |-> 0, thinkingTime |-> 0]

\* an update that puts the turn back when the list no longer holds it
MapTurnUpsert(msgs, id, patch) ==
  IF \E i \in DOMAIN msgs : msgs[i].id = id
  THEN [i \in DOMAIN msgs |-> IF msgs[i].id = id THEN patch @@ msgs[i] ELSE msgs[i]]
  ELSE Append(msgs, patch @@ Turn(id, "model", <<>>, TRUE))

\* setMessages(prev => prev.map(msg => msg.id === id ? {...msg, ...patch} : msg))
MapTurn(msgs, id, patch) ==
  [i \in DOMAIN msgs |-> IF msgs[i].id = id THEN patch @@ msgs[i] ELSE msgs[i]]

\* one onChunk(text, reasoning, usage) invocation; reasoning null is rnull
Callback(text, reasoning, usage) ==
  [text |-> text, reasoning |-> reasoning, rnull |-> (reasoning = <<>>), usage |-> usage]

\* a callback that records the time of every callback with a fragment
OnChunkRecordsEvery(R, cb) ==
  LET first == cb.text # <<>> \/ cb.reasoning # <<>>
      fullReasoning == R.x.fullReasoning \o cb.reasoning
      fullText == R.x.fullText \o cb.text
      m1 == IF first
            THEN MapTurn(R.msgs, R.x.id, [thinkingTime |-> Len(R.x.calls) + 1])
            ELSE R.msgs
      m2 == MapTurn(m1, R.x.id,
                    IF cb.usage # 0
                    THEN [text |-> fullText, reasoning |-> fullReasoning, usage |-> cb.usage]
                    ELSE [text |-> fullText, reasoning |-> fullReasoning])
  IN [x |-> [R.x EXCEPT !.firstTokenReceived = @ \/ first,
                        !.fullReasoning = fullReasoning,
                        !.fullText = fullText,
                        !.calls = Append(@, cb)],
      msgs |-> m2]

\* a callback that puts the new fragments in front of the accumulated ones
OnChunkPrepends(R, cb) ==
  LET first == ~R.x.firstTokenReceived /\ (cb.text # <<>> \/ cb.reasoning # <<>>)
      fullReasoning == cb.reasoning \o R.x.fullReasoning
      fullText == cb.text \o R.x.fullText
      m1 == IF first
            THEN MapTurn(R.msgs, R.x.id, [thinkingTime |-> Len(R.x.calls) + 1])
            ELSE R.msgs
      m2 == MapTurn(m1, R.x.id,
                    IF cb.usage # 0
                    THEN [text |-> fullText, reasoning |-> fullReasoning, usage |-> cb.usage]
                    ELSE [text |-> fullText, reasoning |-> fullReasoning])
  IN [x |-> [R.x EXCEPT !.firstTokenReceived = @ \/ first,
                        !.fullReasoning = fullReasoning,
                        !.fullText = fullText,
                        !.calls = Append(@, cb)],
      msgs |-> m2]

\* The callback triggerApiCall passes to the service.  R is the running
\* exchange: R.x its closure, R.msgs the conversation history.
OnChunk(R, cb) ==
  LET first == ~R.x.firstTokenReceived /\ (cb.text # <<>> \/ cb.reasoning # <<>>)
      fullReasoning == R.x.fullReasoning \o cb.reasoning
      fullText == R.x.fullText \o cb.text
      m1 == IF first
            THEN MapTurn(R.msgs, R.x.id, [thinkingTime |-> Len(R.x.calls) + 1])
            ELSE R.msgs
      m2 == MapTurn(m1, R.x.id,
                    IF cb.usage # 0
                    THEN [text |-> fullText, reasoning |-> fullReasoning, usage |-> cb.usage]
                    ELSE [text |-> fullText, reasoning |-> fullReasoning])
  IN [x |-> [R.x EXCEPT !.firstTokenReceived = @ \/ first,
                        !.fullReasoning = fullReasoning,
                        !.fullText = fullText,
                        !.calls = Append(@, cb)],
      msgs |-> m2]

(****************************** event parser *******************************)
DataPrefix == <<DATA, SP>>

\* a parser whose deserialization failure escapes processBuffer
OnParseFailureRethrow(R) == [R EXCEPT !.x.thrown = TRUE]

\* catch (e) { console.warn(...) }
OnParseFailure(R) == [R EXCEPT !.x.warnings = @ + 1]

\* a parser that emits a delta only when it has reasoning or a usage report
\* came with it
HandleDataNeedsReasoning(R, data) ==
  LET R1 == IF data.usage # 0 THEN OnChunk(R, Callback(<<>>, <<>>, data.usage)) ELSE R
  IN IF ~data.hasDelta THEN R1
     ELSE LET explicit == ExplicitReasoning(data)
              ib == InBand(data.content, R1.x.isThinkingInContent)
              R2 == [R1 EXCEPT !.x.isThinkingInContent = ib.inside]
          IN IF explicit # <<>> \/ ib.derived # <<>> \/ data.usage # 0
             THEN OnChunk(R2, Callback(ib.content, FinalReasoning(explicit, ib.derived), 0))
             ELSE R2

\* the body of the try block once JSON.parse has succeeded
HandleData(R, data) ==
  LET R1 == IF data.usage # 0 THEN OnChunk(R, Callback(<<>>, <<>>, data.usage)) ELSE R
  IN IF ~data.hasDelta THEN R1
     ELSE LET explicit == ExplicitReasoning(data)
              ib == InBand(data.content, R1.x.isThinkingInContent)
              R2 == [R1 EXCEPT !.x.isThinkingInContent = ib.inside]
          IN IF explicit # <<>> \/ ib.derived # <<>> \/ ib.content # <<>>
             THEN OnChunk(R2, Callback(ib.content, FinalReasoning(explicit, ib.derived), 0))
             ELSE R2

\* a parser that hands the sentinel to JSON.parse like any payload
HandleDataStrNoSentinel(R, dataStr) ==
  IF ~JsonOk(dataStr) THEN OnParseFailure(R)
  ELSE HandleData(R, JsonParse(dataStr))

\* what processBuffer does with the payload after the "data: " prefix
HandleDataStr(R, dataStr) ==
  IF dataStr = <<DONE>> THEN R
  ELSE IF ~JsonOk(dataStr) THEN OnParseFailure(R)
  ELSE HandleData(R, JsonParse(dataStr))

\* processBuffer(line); the entry appended to seen records the call
processBuffer(line, R) ==
  LET trimmed == Trim(line)
      R1 == IF trimmed = <<>> \/ ~StartsWith(trimmed, DataPrefix) THEN R
            ELSE HandleDataStr(R, SubSeq(trimmed, Len(DataPrefix) + 1, Len(trimmed)))
  IN [R1 EXCEPT !.x.seen =
        Append(@, [line |-> line,
                   before |-> R.x.isThinkingInContent,
                   after |-> R1.x.isThinkingInContent,
                   ncalls |-> Len(R1.x.calls) - Len(R.x.calls),
                   warned |-> R1.x.warnings # R.x.warnings,
                   thrown |-> R1.x.thrown])]

\* for (const line of lines) processBuffer(line); an exception ends the loop
RECURSIVE ProcessLines(_, _)
ProcessLines(lines, R) ==
  IF lines = <<>> \/ R.x.thrown THEN R
  ELSE ProcessLines(Tail(lines), processBuffer(Head(lines), R))

(**************************** session controller ***************************)
InFlight == {"sending", "errbody", "streaming"}

\* an exchange whose pending await was rejected by abort() and whose
\* continuation has not run yet; it runs before any other event is handled
Quiet == \A e \in DOMAIN ex : ex[e].pc # "aborting"
Terminal == {"completed", "aborted", "failed"}

\* decoder state kept at module level: an exchange starts with what the
\* exchange started before it left behind
LeakedDecoder ==
  IF nextEx > 2
  THEN [buffer |-> ex[nextEx - 2].buffer,
        isThinkingInContent |-> ex[nextEx - 2].isThinkingInContent]
  ELSE [buffer |-> <<>>, isThinkingInContent |-> FALSE]

\* let buffer = ''; let isThinkingInContent = false;
FreshDecoder == [buffer |-> <<>>, isThinkingInContent |-> FALSE]

IdleExchange ==
  [pc |-> "idle", id |-> 0, stream |-> <<>>, pos |-> 0,
   buffer |-> <<>>, isThinkingInContent |-> FALSE,
   fullText |-> <<>>, fullReasoning |-> <<>>, firstTokenReceived |-> FALSE,
   calls |-> <<>>, seen |-> <<>>, warnings |-> 0, thrown |-> FALSE,
   cancelled |-> FALSE, callsAtCancel |-> 0, textAtCancel |-> <<>>,
   awaiting |-> "idle", kind |-> "none", before |-> <<>>, history |-> <<>>,
   currentMessage |-> <<>>, outbound |-> <<>>, key |-> <<>>,
   mode |-> "none", customSystemPrompt |-> <<>>, errorBody |-> "none",
   callsAtDelete |-> -1, answered |-> 0, target |-> 0]

TurnOf(msgs, id) ==
  IF \E i \in DOMAIN msgs : msgs[i].id = id
  THEN msgs[CHOOSE i \in DOMAIN msgs : msgs[i].id = id]
  ELSE Turn(0, "none", <<>>, FALSE)

\* a finalize step that leaves the turn as it is
FinalizeLeftOpen(msgs, id) == msgs

\* "Finalize": the turn is closed
Finalize(msgs, id) == MapTurn(msgs, id, [isStreaming |-> FALSE])

\* a catch that shows the error and leaves the turn open
ShowErrorLeftOpen(msgs, id, msg) == MapTurn(msgs, id, [text |-> <<"Error: ", msg>>])

\* the catch of triggerApiCall for an error that is not an AbortError
ShowError(msgs, id, msg) ==
  MapTurn(msgs, id, [text |-> <<"Error: ", msg>>, isStreaming |-> FALSE])

\* an updater that marks the last turn whatever it is
MarkStoppedAnyTurn(msgs) ==
  IF msgs # <<>>
  THEN [i \in DOMAIN msgs |->
          IF msgs[i].id = msgs[Len(msgs)].id
          THEN [msgs[i] EXCEPT !.isStreaming = FALSE, !.text = @ \o StopMarker]
          ELSE msgs[i]]
  ELSE msgs

\* the setMessages updater of handleStopGeneration
MarkStopped(msgs) ==
  IF msgs # <<>> /\ msgs[Len(msgs)].role = "model" /\ msgs[Len(msgs)].isStreaming
  THEN MapTurn(msgs, msgs[Len(msgs)].id,
               [isStreaming |-> FALSE, text |-> msgs[Len(msgs)].text \o StopMarker])
  ELSE msgs

\* a service whose fetch never receives the signal: the exchange runs on
SettleAbortUnwired(x, msgs) == [x |-> x, msgs |-> msgs]

\* What the aborted signal does to the exchange x suspended in an await:
\* fetch() and reader.read() reject with an AbortError, which the service
\* swallows, and triggerApiCall finalizes; response.json() rejects into the
\* inner catch, whose response.text() on the consumed body throws a TypeError
\* that reaches the catch of triggerApiCall.
SettleAbort(x, msgs) ==
  IF x.pc \in {"sending", "streaming"}
  THEN [x |-> [x EXCEPT !.pc = "aborted"], msgs |-> Finalize(msgs, x.id)]
  ELSE IF x.pc = "errbody"
  THEN [x |-> [x EXCEPT !.pc = "failed"], msgs |-> ShowError(msgs, x.id, "body stream already read")]
  ELSE [x |-> x, msgs |-> msgs]

\* what the system prompt field can hold: nothing, whitespace only, a text
\* with whitespace around it
CustomPrompts == {<<>>, <<SP>>, <<SP, <<"custom">>, SP>>}

\* no key, a key shorter than the service accepts, a well-formed key
Keys == {<<>>, <<"s", "k">>, <<"s", "k", "-", "o", "r", "1">>}

Init ==
  /\ messages = <<>>
  /\ isLoading = FALSE
  /\ apiKey \in Keys
  /\ showSettings = (apiKey = <<>>)
  /\ mode = "general"
  /\ systemPrompt = <<>>
  /\ abortControllerRef = 0
  /\ ex = [e \in 1..MaxExchanges |-> IdleExchange]
  /\ nextEx = 1
  /\ reading = <<>>

\* a finally that leaves the controller in place
FinallyRefKept(ref) == ref

\* finally: abortControllerRef.current = null
FinallyRef(ref) == 0

\* the ids of the mode selector
Modes == {"general", "math", "coding", "logic", "fengshui"}

\* The prompt texts, as sequences of tokens: <<"base">> is the text of
\* basePrompt, <<"math">> the paragraph the math mode adds to it, and so on;
\* SP is one whitespace character.
basePrompt == <<<<"base">>>>

\* the switch over mode
ModePrompt(m) ==
  CASE m = "math" -> basePrompt \o <<<<"math">>>>
    [] m = "coding" -> basePrompt \o <<<<"coding">>>>
    [] m = "logic" -> basePrompt \o <<<<"logic">>>>
    [] m = "fengshui" -> <<<<"fengshui">>>>
    [] OTHER -> basePrompt \o <<<<"general">>>>

\* a service that appends the custom prompt to the preamble of the mode
SystemPromptMerged(m, customSystemPrompt) ==
  IF Trim(customSystemPrompt) # <<>>
  THEN ModePrompt(m) \o customSystemPrompt
  ELSE ModePrompt(m)

\* systemPrompt of the request
SystemPrompt(m, customSystemPrompt) ==
  IF Trim(customSystemPrompt) # <<>> THEN customSystemPrompt ELSE ModePrompt(m)

\* the entry of a prior turn with its reasoning replayed in the content
HistoryEntryWithReasoning(msg) ==
  [role |-> IF msg.role = "user" THEN "user" ELSE "assistant",
   content |-> IF msg.role = "model" /\ msg.reasoning # <<>>
               THEN msg.reasoning \o <<"\n\n">> \o msg.text ELSE msg.text]

\* history.map(msg => ({role, content: msg.text}))
HistoryEntry(msg) ==
  [role |-> IF msg.role = "user" THEN "user" ELSE "assistant", content |-> msg.text]

\* a request that leaves out the system entry
BuildMessagesNoSystem(history, currentMessage, m, customSystemPrompt) ==
  [i \in DOMAIN history |-> HistoryEntry(history[i])]
    \o <<[role |-> "user", content |-> currentMessage]>>

\* const messages = [system, ...history.map(...), {role: 'user', content}]
BuildMessages(history, currentMessage, m, customSystemPrompt) ==
  <<[role |-> "system", content |-> SystemPrompt(m, customSystemPrompt)]>>
    \o [i \in DOMAIN history |-> HistoryEntry(history[i])]
    \o <<[role |-> "user", content |-> currentMessage]>>

\* a service that only rejects the empty key
KeyRejectedOnlyEmpty(key) == key = <<>>

\* if (!apiKey || apiKey.length < 5) throw
KeyRejected(key) == key = <<>> \/ Len(key) < MinKeyLen

\* the settings a handler closes over: those of the render that created it
Closure == [apiKey |-> apiKey, mode |-> mode, systemPrompt |-> systemPrompt]

\* triggerApiCall(currentMessageText, history) called from the updater of a
\* send, edit or retry (kind) that returns base; c is the closure of the
\* handler that calls it
TriggerApiCall(kind, currentMessageText, history, base, c, target) ==
  LET e == nextEx
      aiMessageId == 2 * e
      withAi == Append(base, Turn(aiMessageId, "model", <<>>, TRUE))
      x == [ex[e] EXCEPT !.kind = kind, !.before = messages, !.history = history,
                         !.currentMessage = currentMessageText, !.key = c.apiKey,
                         !.mode = c.mode, !.customSystemPrompt = c.systemPrompt,
                         !.answered = base[Len(base)].id, !.target = target]
  IN /\ nextEx' = nextEx + 1
     /\ IF c.apiKey = <<>>
        THEN /\ showSettings' = TRUE
             /\ messages' = base
             /\ ex' = [ex EXCEPT ![e] = [x EXCEPT !.pc = "unconfigured"]]
             /\ UNCHANGED <<isLoading, abortControllerRef>>
        ELSE IF KeyRejected(c.apiKey)
        THEN /\ messages' = ShowError(withAi, aiMessageId, "invalid API key")
             /\ ex' = [ex EXCEPT ![e] = [x EXCEPT !.pc = "failed", !.id = aiMessageId]]
             /\ isLoading' = FALSE
             /\ abortControllerRef' = FinallyRef(e)
             /\ UNCHANGED showSettings
        ELSE /\ messages' = withAi
             /\ ex' = [ex EXCEPT ![e] = [x EXCEPT !.pc = "sending", !.id = aiMessageId,
                                           !.outbound =
                                             BuildMessages(history, currentMessageText,
                                                           c.mode, c.systemPrompt)]]
             /\ isLoading' = TRUE
             /\ abortControllerRef' = e
             /\ UNCHANGED showSettings

\* handleSendMessage(text, attachments): messageText is text, or the files'
\* contents followed by text
handleSendMessage(messageText, c) ==
  /\ nextEx <= MaxExchanges
  /\ TriggerApiCall("send", messageText, messages,
                    Append(messages, Turn(2 * nextEx - 1, "user", messageText, FALSE)), c, 0)
  /\ UNCHANGED <<apiKey, mode, systemPrompt>>

\* ChatInput.handleSend with no file selected: the guard, then onSend
Send(text) ==
  /\ Quiet
  /\ ~isLoading
  /\ apiKey # <<>>
  /\ nextEx + Len(reading) <= MaxExchanges
  /\ handleSendMessage(text, Closure)
  /\ UNCHANGED reading

\* ChatInput.handleSend with files selected: the guard, then the await of
\* the file reads; the suspended call keeps the onSend of its render
SendWithFiles ==
  /\ Quiet
  /\ ~isLoading
  /\ apiKey # <<>>
  /\ nextEx + Len(reading) <= MaxExchanges
  /\ reading' = Append(reading, Closure)
  /\ UNCHANGED <<messages, isLoading, showSettings, abortControllerRef, apiKey, mode, systemPrompt, ex, nextEx>>

\* the file reads of a suspended handleSend settle: onSend(text, attachments),
\* or the alert and return when a read failed
FilesRead(i, ok) ==
  /\ Quiet
  /\ i \in DOMAIN reading
  /\ reading' = SubSeq(reading, 1, i - 1) \o SubSeq(reading, i + 1, Len(reading))
  /\ IF ok
     THEN handleSendMessage(<<"[file]", "q">>, reading[i])
     ELSE UNCHANGED <<messages, isLoading, showSettings, abortControllerRef, apiKey, mode, systemPrompt, ex, nextEx>>

\* the exchange ends with an error other than an abort
Fail(e, x, msgs, msg) ==
  /\ ex' = [ex EXCEPT ![e] = [x EXCEPT !.pc = "failed"]]
  /\ messages' = ShowError(msgs, x.id, msg)
  /\ isLoading' = FALSE
  /\ abortControllerRef' = FinallyRef(abortControllerRef)
  /\ UNCHANGED <<showSettings, apiKey, mode, systemPrompt, nextEx, reading>>

\* fetch resolves with an ok response whose body will carry one of bodies
FetchOk(e, bodies) ==
  /\ Quiet
  /\ ex[e].pc = "sending"
  /\ \E s \in bodies :
       ex' = [ex EXCEPT ![e].pc = "streaming", ![e].stream = s,
                        ![e].buffer = FreshDecoder.buffer,
                        ![e].isThinkingInContent = FreshDecoder.isThinkingInContent]
  /\ UNCHANGED <<messages, isLoading, showSettings, abortControllerRef, apiKey, mode, systemPrompt, nextEx, reading>>

\* fetch resolves with a non-success status: the service awaits response.json()
FetchNotOk(e) ==
  /\ Quiet
  /\ ex[e].pc = "sending"
  /\ ex' = [ex EXCEPT ![e].pc = "errbody"]
  /\ UNCHANGED <<messages, isLoading, showSettings, abortControllerRef, apiKey, mode, systemPrompt, nextEx, reading>>

\* fetch rejects (network failure), or resolves ok without a body
FetchFails(e, msg) ==
  /\ Quiet
  /\ ex[e].pc = "sending"
  /\ msg \in {"Failed to fetch", "Response body is empty"}
  /\ Fail(e, ex[e], messages, msg)

\* the bodies a non-success response can carry: a JSON envelope with a
\* message, JSON without one, text that is not JSON
ErrorBodies == {"envelope", "nomessage", "notjson"}

\* errorMsg of the !response.ok branch: errorData.error?.message || errorMsg
\* when response.json() resolves; when it rejects, response.text() is called
\* on the body json() has consumed and rejects with a TypeError, whose
\* message the Error thrown to triggerApiCall then carries
ErrorMsg(kind) ==
  CASE kind = "envelope" -> "server message"
    [] kind = "nomessage" -> "API request failed with status N"
    [] OTHER -> "body stream already read"

\* the error body arrives
ErrorBody(e, kind) ==
  /\ Quiet
  /\ ex[e].pc = "errbody"
  /\ kind \in ErrorBodies
  /\ Fail(e, [ex[e] EXCEPT !.errorBody = kind], messages, ErrorMsg(kind))

\* a decoder that keeps the last complete line in the buffer with the
\* partial one
PopBufferKeepsLine(lines) ==
  IF Len(lines) >= 2
  THEN lines[Len(lines) - 1] \o <<NL>> \o lines[Len(lines)]
  ELSE lines[Len(lines)]

\* a decoder that forgets the partial line between reads
PopBufferCleared(lines) == <<>>

\* buffer = lines.pop() || ''
PopBuffer(lines) == lines[Len(lines)]

\* one reader.read() that yields the next k tokens of the body
ReadChunk(e, k) ==
  /\ Quiet
  /\ ex[e].pc = "streaming"
  /\ k \in 1..(Len(ex[e].stream) - ex[e].pos)
  /\ LET x == ex[e]
         buf == x.buffer \o SubSeq(x.stream, x.pos + 1, x.pos + k)
         lines == Split(buf, <<NL>>)
         R == ProcessLines(SubSeq(lines, 1, Len(lines) - 1),
                           [x |-> [x EXCEPT !.pos = x.pos + k, !.buffer = PopBuffer(lines)],
                            msgs |-> messages])
     IN IF R.x.thrown
        THEN Fail(e, R.x, R.msgs, "uncaught")
        ELSE /\ ex' = [ex EXCEPT ![e] = R.x]
             /\ messages' = R.msgs
             /\ UNCHANGED <<isLoading, showSettings, abortControllerRef, apiKey, mode, systemPrompt, nextEx, reading>>

\* a decoder that drops what is left in the buffer when the body ends
FlushResidualDropped(R) == R

\* if (buffer.trim()) processBuffer(buffer)
FlushResidual(R) == IF Trim(R.x.buffer) # <<>> THEN processBuffer(R.x.buffer, R) ELSE R

\* reader.read() reports done: flush the residual, finalize, finally
ReadDone(e) ==
  /\ Quiet
  /\ ex[e].pc = "streaming"
  /\ ex[e].pos = Len(ex[e].stream)
  /\ LET x == ex[e]
         R == FlushResidual([x |-> x, msgs |-> messages])
     IN IF R.x.thrown
        THEN Fail(e, R.x, R.msgs, "uncaught")
        ELSE /\ ex' = [ex EXCEPT ![e] = [R.x EXCEPT !.pc = "completed"]]
             /\ messages' = Finalize(R.msgs, x.id)
             /\ isLoading' = FALSE
             /\ abortControllerRef' = FinallyRef(abortControllerRef)
             /\ UNCHANGED <<showSettings, apiKey, mode, systemPrompt, nextEx, reading>>

\* reader.read() rejects: the connection broke while the body was read
ReadFails(e) ==
  /\ Quiet
  /\ ex[e].pc = "streaming"
  /\ Fail(e, ex[e], messages, "network error")

\* the state handleStopGeneration reads and writes
Now == [messages |-> messages, isLoading |-> isLoading, ref |-> abortControllerRef, ex |-> ex]

\* handleStopGeneration: abort the current controller, whose exchange is
\* left to settle, and mark the last turn
handleStopGeneration(S) ==
  IF S.ref = 0
  THEN S
  ELSE LET e == S.ref
           x == S.ex[e]
       IN [messages |-> MarkStopped(S.messages),
           isLoading |-> FALSE,
           ref |-> 0,
           ex |-> IF x.pc \in InFlight
                  THEN [S.ex EXCEPT ![e] =
                          [x EXCEPT !.cancelled = TRUE,
                                    !.callsAtCancel = Len(x.calls),
                                    !.textAtCancel = TurnOf(S.messages, x.id).text,
                                    !.awaiting = x.pc,
                                    !.pc = "aborting"]]
                  ELSE S.ex]

Stop ==
  /\ Quiet
  /\ LET T == handleStopGeneration(Now)
     IN /\ messages' = T.messages
        /\ isLoading' = T.isLoading
        /\ abortControllerRef' = T.ref
        /\ ex' = T.ex
  /\ UNCHANGED <<showSettings, apiKey, mode, systemPrompt, nextEx, reading>>

\* the continuation of the aborted exchange: the rejected await, the catch
\* blocks and the finally of triggerApiCall
AbortSettles(e) ==
  /\ ex[e].pc = "aborting"
  /\ LET S == SettleAbort([ex[e] EXCEPT !.pc = ex[e].awaiting], messages)
     IN /\ ex' = [ex EXCEPT ![e] = S.x]
        /\ messages' = S.msgs
        /\ IF S.x.pc \in Terminal
           THEN /\ isLoading' = FALSE
                /\ abortControllerRef' = FinallyRef(abortControllerRef)
           ELSE UNCHANGED <<isLoading, abortControllerRef>>
  /\ UNCHANGED <<showSettings, apiKey, mode, systemPrompt, nextEx, reading>>

\* what the message component (not in src) offers: edit on a user turn,
\* retry on an assistant turn, neither while loading
ChatMessageOffers(action, i) ==
  /\ ~isLoading
  /\ i \in DOMAIN messages
  /\ action = "edit" => messages[i].role = "user"
  /\ action = "retry" => messages[i].role = "model"

\* handleEditMessage(id, newText) on the message at index i
Edit(i, newText) ==
  /\ Quiet
  /\ ChatMessageOffers("edit", i)
  /\ nextEx + Len(reading) <= MaxExchanges
  /\ LET history == SubSeq(messages, 1, i - 1)
     IN TriggerApiCall("edit", newText, history,
                       Append(history, [messages[i] EXCEPT !.text = newText]), Closure,
                       messages[i].id)
  /\ UNCHANGED <<apiKey, mode, systemPrompt, reading>>

\* a context that keeps the prompt being retried
historyContextWithPrompt(prev, userMsgIndex) == SubSeq(prev, 1, userMsgIndex)

\* prev.slice(0, userMsgIndex), indices from 1 here: the turns before the
\* prompt
historyContext(prev, userMsgIndex) == SubSeq(prev, 1, userMsgIndex - 1)

\* handleRetryMessage(id) on the message at index i
Retry(i) ==
  /\ Quiet
  /\ ChatMessageOffers("retry", i)
  /\ nextEx + Len(reading) <= MaxExchanges
  /\ IF i - 1 < 1 \/ messages[i - 1].role # "user"
     THEN UNCHANGED <<messages, isLoading, showSettings, abortControllerRef, ex, nextEx>>
     ELSE TriggerApiCall("retry", messages[i - 1].text, historyContext(messages, i - 1),
                         SubSeq(messages, 1, i - 1), Closure, messages[i].id)
  /\ UNCHANGED <<apiKey, mode, systemPrompt, reading>>

\* what the message component (not in src) offers: delete on every turn, also
\* while its exchange is streaming
ChatMessageOffersDelete(i) == i \in DOMAIN messages

\* setMessages(prev => prev.filter(msg => msg.id !== id))
handleDeleteMessage(msgs, id) == SelectSeq(msgs, LAMBDA msg : msg.id # id)

\* handleDeleteMessage(id) on the message at index i, window.confirm answered
\* by confirmed; callsAtDelete notes how far an exchange in flight had come
\* when its placeholder was deleted
Delete(i, confirmed) ==
  /\ Quiet
  /\ ChatMessageOffersDelete(i)
  /\ IF confirmed
     THEN /\ messages' = handleDeleteMessage(messages, messages[i].id)
          /\ ex' = [e \in DOMAIN ex |->
                     IF ex[e].id = messages[i].id /\ ex[e].pc \in InFlight
                     THEN [ex[e] EXCEPT !.callsAtDelete = Len(ex[e].calls)]
                     ELSE ex[e]]
     ELSE UNCHANGED <<messages, ex>>
  /\ UNCHANGED <<isLoading, showSettings, abortControllerRef, apiKey, mode, systemPrompt, nextEx, reading>>

\* the settings button, and the cancel button of the panel
SetShowSettings(b) ==
  /\ Quiet
  /\ showSettings # b
  /\ showSettings' = b
  /\ UNCHANGED <<messages, isLoading, abortControllerRef, apiKey, mode, systemPrompt, ex, nextEx, reading>>

\* onChange of the key field of the settings panel
SetApiKey(key) ==
  /\ Quiet
  /\ showSettings
  /\ apiKey # key
  /\ apiKey' = key
  /\ UNCHANGED <<messages, isLoading, showSettings, abortControllerRef, mode, systemPrompt,
                 ex, nextEx, reading>>

\* a mode button of ChatInput (disabled while loading or without a key)
SetMode(m) ==
  /\ Quiet
  /\ ~isLoading
  /\ apiKey # <<>>
  /\ mode # m
  /\ mode' = m
  /\ UNCHANGED <<messages, isLoading, showSettings, abortControllerRef, apiKey, systemPrompt,
                 ex, nextEx, reading>>

\* onChange of the system prompt field of the settings panel
SetSystemPrompt(p) ==
  /\ Quiet
  /\ showSettings
  /\ systemPrompt # p
  /\ systemPrompt' = p
  /\ UNCHANGED <<messages, isLoading, showSettings, abortControllerRef, apiKey, mode,
                 ex, nextEx, reading>>

(****************************** server inputs ******************************)
\* all sequences over S of length at most n
SeqsUpTo(S, n) == UNION {[1..k -> S] : k \in 0..n}

DataLine(p) == <<DATA, SP, JO(p), JC(p)>>

\* lines joined by "\n", the last one left open
RECURSIVE JoinLines(_)
JoinLines(ls) ==
  IF ls = <<>> THEN <<>>
  ELSE IF Len(ls) = 1 THEN ls[1]
  ELSE ls[1] \o <<NL>> \o JoinLines(Tail(ls))

\* every body of at most n lines of the given forms, with and without a
\* terminator after the last line
StreamsOf(forms, n) ==
  {JoinLines(ls) \o tail : ls \in SeqsUpTo(forms, n), tail \in {<<>>, <<NL>>}}

Hello == StartTag \o <<"hello">>
WorldAnswer == <<" world">> \o EndTag \o <<"answer">>

\* contents that open, continue and close a reasoning span
TagSamples == {<<"a">>, Hello, WorldAnswer}

\* the shapes a line of the body can take: empty, whitespace only, comment,
\* sentinel, a JSON text cut short, a padded data line, a record with usage,
\* plain deltas
LineForms ==
  {<<>>, <<SP>>, <<CMT>>, <<DATA, SP, DONE>>,
   <<DATA, SP, JO(ContentOnly(<<"a">>))>>,
   <<SP>> \o DataLine(ContentOnly(<<"b">>)) \o <<SP>>,
   DataLine(Payload(7, TRUE, RdAbsent, <<"r">>, <<>>, <<>>))}
  \cup {DataLine(ContentOnly(c)) : c \in TagSamples}

DecodeStreams == StreamsOf(LineForms, MaxLines)

\* the bodies of the exchanges of the full life cycle
CoreStreams ==
  {DataLine(ContentOnly(<<"a">>)) \o <<NL>>,
   DataLine(ContentOnly(Hello)) \o <<NL>> \o DataLine(ContentOnly(WorldAnswer)) \o <<NL>>,
   DataLine(ContentOnly(<<"a">>)) \o <<NL>> \o DataLine(ContentOnly(Hello))}

\* the body of the exchanges of the life cycle with settings
ShortStreams == {DataLine(ContentOnly(<<"a">>)) \o <<NL>>}

\* reasoning_details elements
Items ==
  {StrItem(<<"s">>), NoItem,
   ObjItem(<<"t">>, <<>>, <<>>, <<>>), ObjItem(<<>>, <<"x">>, <<>>, <<>>),
   ObjItem(<<>>, <<>>, <<"c">>, <<>>), ObjItem(<<>>, <<>>, <<>>, <<"g">>),
   ObjItem(<<>>, <<"x">>, <<>>, <<"g">>)}

RdValues ==
  {RdAbsent, RdStr(<<>>), RdStr(<<"d">>)}
    \cup {RdList(l) : l \in SeqsUpTo(Items, MaxItems)}
    \cup {RdObj(o) : o \in {i \in Items : i.kind = "obj"}}

\* every content of at most MaxSegs segments: text or a tag
Contents ==
  {Join(ss) : ss \in SeqsUpTo({<<"a">>, <<"b">>, StartTag, EndTag}, MaxSegs)}

\* deltas that vary the explicit fields, over a few contents
ExplicitDeltas ==
  {Delta(rd, r, rc, c) : rd \in RdValues, r \in {<<>>, <<"R">>},
                         rc \in {<<>>, <<"Q">>}, c \in {<<>>, <<"a">>}}

\* deltas that vary the content, over a few explicit fields
ContentDeltas ==
  {Delta(rd, r, rc, c) : rd \in {RdAbsent, RdList(<<>>)}, r \in {<<>>, <<"R">>},
                         rc \in {<<>>, <<"Q">>}, c \in Contents}

\* records with a usage report: with an empty delta, with content, with a
\* start tag alone, and without a delta
UsageRecords ==
  {Payload(7, TRUE, RdAbsent, <<>>, <<>>, c) : c \in {<<>>, <<"a">>, StartTag}}
    \cup {Payload(7, FALSE, RdAbsent, <<>>, <<>>, <<>>)}

\* a tag cut in two by the boundary between two events, text on both sides
SplitTagEvents ==
  {DataLine(ContentOnly(<<"a", tag[1]>>)) \o <<NL>>
     \o DataLine(ContentOnly(<<tag[2], "b">>)) \o <<NL>> : tag \in {StartTag, EndTag}}

\* a content in which the same tag occurs twice, text around each
RepeatedTagContents ==
  {<<"a">> \o tag \o <<"b">> \o tag \o <<"c">> : tag \in {StartTag, EndTag}}

\* one delta event, alone or (for the content deltas) after an event that
\* opens a reasoning span; the repeated tags; and the split tags, outside and
\* inside a span
ClassifyStreams ==
  {DataLine(d) \o <<NL>> : d \in ExplicitDeltas \cup ContentDeltas \cup UsageRecords}
    \cup {DataLine(ContentOnly(c)) \o <<NL>> : c \in RepeatedTagContents}
    \cup {DataLine(ContentOnly(StartTag)) \o <<NL>> \o DataLine(d) \o <<NL>> :
            d \in ContentDeltas}
    \cup SplitTagEvents
    \cup {DataLine(ContentOnly(StartTag)) \o <<NL>> \o s : s \in SplitTagEvents}

(***************************** specifications ******************************)
Exchanges == 1..MaxExchanges

Next ==
  \/ Send(<<"q">>)
  \/ SendWithFiles
  \/ \E i \in 1..MaxExchanges, ok \in BOOLEAN : FilesRead(i, ok)
  \/ \E i \in 1..(2 * MaxExchanges) : Edit(i, <<"q2">>)
  \/ \E i \in 1..(2 * MaxExchanges) : Retry(i)
  \/ \E e \in Exchanges : FetchOk(e, CoreStreams)
  \/ \E e \in Exchanges : FetchNotOk(e)
  \/ \E e \in Exchanges, msg \in {"Failed to fetch", "Response body is empty"} :
       FetchFails(e, msg)
  \/ \E e \in Exchanges, kind \in ErrorBodies : ErrorBody(e, kind)
  \/ \E e \in Exchanges : \E k \in 1..Len(ex[e].stream) : ReadChunk(e, k)
  \/ \E e \in Exchanges : ReadDone(e)
  \/ \E e \in Exchanges : ReadFails(e)
  \/ Stop
  \/ \E e \in Exchanges : AbortSettles(e)

Spec == Init /\ [][Next]_vars

\* the transport ends the phase exchange e is in: the fetch settles, the
\* error body arrives, the body ends or the read fails, or the abort signal
\* rejects the pending await
Transport(e) ==
  \/ FetchOk(e, ShortStreams)
  \/ FetchNotOk(e)
  \/ FetchFails(e, "Failed to fetch")
  \/ ErrorBody(e, "envelope")
  \/ ReadDone(e)
  \/ ReadFails(e)
  \/ AbortSettles(e)

NextLive ==
  \/ Send(<<"q">>)
  \/ SendWithFiles
  \/ \E i \in 1..MaxExchanges, ok \in BOOLEAN : FilesRead(i, ok)
  \/ \E i \in 1..(2 * MaxExchanges) : Edit(i, <<"q2">>)
  \/ \E i \in 1..(2 * MaxExchanges) : Retry(i)
  \/ Stop
  \/ \E e \in Exchanges : \E k \in 1..Len(ex[e].stream) : ReadChunk(e, k)
  \/ \E e \in Exchanges : Transport(e)

\* the life cycle, over one short body, with a transport that eventually
\* ends every phase of every exchange
SpecLive == Init /\ [][NextLive]_vars /\ \A e \in Exchanges : WF_vars(Transport(e))

\* the life cycle with the delete button of the turns, over one short body
NextDelete ==
  \/ Send(<<"q">>)
  \/ SendWithFiles
  \/ \E i \in 1..MaxExchanges, ok \in BOOLEAN : FilesRead(i, ok)
  \/ \E i \in 1..(2 * MaxExchanges), confirmed \in BOOLEAN : Delete(i, confirmed)
  \/ \E i \in 1..(2 * MaxExchanges) : Edit(i, <<"q2">>)
  \/ \E i \in 1..(2 * MaxExchanges) : Retry(i)
  \/ Stop
  \/ \E e \in Exchanges : \E k \in 1..Len(ex[e].stream) : ReadChunk(e, k)
  \/ \E e \in Exchanges : FetchOk(e, ShortStreams)
  \/ \E e \in Exchanges : FetchNotOk(e)
  \/ \E e \in Exchanges : FetchFails(e, "Failed to fetch")
  \/ \E e \in Exchanges : ErrorBody(e, "envelope")
  \/ \E e \in Exchanges : ReadDone(e)
  \/ \E e \in Exchanges : ReadFails(e)
  \/ \E e \in Exchanges : AbortSettles(e)

SpecDelete == Init /\ [][NextDelete]_vars

\* the life cycle with the settings panel, over one short body
NextConfig ==
  \/ Send(<<"q">>)
  \/ SendWithFiles
  \/ \E i \in 1..MaxExchanges, ok \in BOOLEAN : FilesRead(i, ok)
  \/ \E i \in 1..(2 * MaxExchanges) : Edit(i, <<"q2">>)
  \/ \E i \in 1..(2 * MaxExchanges) : Retry(i)
  \/ \E b \in BOOLEAN : SetShowSettings(b)
  \/ \E key \in Keys : SetApiKey(key)
  \/ \E e \in Exchanges : FetchOk(e, ShortStreams)
  \/ \E e \in Exchanges : FetchNotOk(e)
  \/ \E e \in Exchanges : FetchFails(e, "Failed to fetch")
  \/ \E e \in Exchanges : ErrorBody(e, "envelope")
  \/ \E e \in Exchanges : \E k \in 1..Len(ex[e].stream) : ReadChunk(e, k)
  \/ \E e \in Exchanges : ReadDone(e)
  \/ \E e \in Exchanges : ReadFails(e)
  \/ Stop
  \/ \E e \in Exchanges : AbortSettles(e)

SpecConfig == Init /\ [][NextConfig]_vars

\* the requests made with the mode selector and the system prompt field in
\* use, each ended by the fetch failing
NextPrompt ==
  \/ Send(<<"q">>)
  \/ SendWithFiles
  \/ \E i \in 1..MaxExchanges, ok \in BOOLEAN : FilesRead(i, ok)
  \/ \E i \in 1..(2 * MaxExchanges) : Edit(i, <<"q2">>)
  \/ \E i \in 1..(2 * MaxExchanges) : Retry(i)
  \/ \E b \in BOOLEAN : SetShowSettings(b)
  \/ \E m \in Modes : SetMode(m)
  \/ \E p \in CustomPrompts : SetSystemPrompt(p)
  \/ \E e \in Exchanges : FetchFails(e, "Failed to fetch")

SpecPrompt == Init /\ [][NextPrompt]_vars

\* one exchange over every body of the decoder's line forms
SendFirst == nextEx = 1 /\ Send(<<"q">>)

NextDecode ==
  \/ SendFirst
  \/ FetchOk(1, DecodeStreams)
  \/ \E k \in 1..Len(ex[1].stream) : ReadChunk(1, k)
  \/ ReadDone(1)

SpecDecode == Init /\ [][NextDecode]_vars

\* one exchange over every delta shape
NextClassify ==
  \/ SendFirst
  \/ FetchOk(1, ClassifyStreams)
  \/ \E k \in 1..Len(ex[1].stream) : ReadChunk(1, k)
  \/ ReadDone(1)

SpecClassify == Init /\ [][NextClassify]_vars

(******************************** properties *******************************)
\* the lines handed to processBuffer so far, in order
Handed(x) == [i \in DOMAIN x.seen |-> x.seen[i].line]

\* the lines of a body read token by token: the complete lines and the
\* unterminated tail
RECURSIVE Scan(_, _, _)
Scan(s, cur, acc) ==
  IF s = <<>> THEN [lines |-> acc, tail |-> cur]
  ELSE IF Head(s) = NL THEN Scan(Tail(s), <<>>, Append(acc, cur))
  ELSE Scan(Tail(s), Append(cur, Head(s)), acc)

NonBlank(s) == \E i \in DOMAIN s : s[i] # SP

\* C1: however the body is cut into chunks, the lines handed to processBuffer
\* are exactly the lines of the bytes received so far, in order, each once:
\* the complete lines while reading (the buffer holding the unterminated
\* tail), plus the non-blank residual once the input has ended.
C1_SplitInvariance ==
  \A e \in Exchanges :
    LET x == ex[e]
        sc == Scan(SubSeq(x.stream, 1, x.pos), <<>>, <<>>)
    IN /\ x.pc = "streaming" => Handed(x) = sc.lines /\ x.buffer = sc.tail
       /\ x.pc = "completed" =>
            Handed(x) = sc.lines \o (IF NonBlank(sc.tail) THEN <<sc.tail>> ELSE <<>>)

\* a line has been delivered and a chunk has ended inside the next line's
\* JSON text
C1_Witness ==
  \E e \in Exchanges :
    LET x == ex[e]
    IN /\ x.pc = "streaming"
       /\ x.seen # <<>>
       /\ x.buffer # <<>>
       /\ x.buffer[Len(x.buffer)][1] = "jo"
       /\ x.pos < Len(x.stream)
       /\ x.stream[x.pos + 1][1] = "jc"

\* C2: once the cancellation signal has fired for an exchange, onChunk is
\* never invoked for it again.
C2_NoCallbackAfterCancel ==
  \A e \in Exchanges : ex[e].cancelled => Len(ex[e].calls) = ex[e].callsAtCancel

\* cancelled after a callback, with a partial line buffered and more of the
\* body still to come
C2_Witness ==
  \E e \in Exchanges :
    /\ ex[e].cancelled
    /\ ex[e].pc = "aborted"
    /\ ex[e].callsAtCancel >= 1
    /\ ex[e].buffer # <<>>
    /\ ex[e].pos < Len(ex[e].stream)

\* the turn with this id is in the history
Present(id) == \E i \in DOMAIN messages : messages[i].id = id

\* the user has edited or retried a turn after exchange e started
RewrittenAfter(e) == \E f \in Exchanges : f > e /\ ex[f].kind \in {"edit", "retry"}

\* C3: a cancelled exchange leaves its turn closed, still in the history
\* (until the user removes it by an edit or a retry), with the text it had
\* at the cancel followed by the truncation marker.
C3_CancelledTurnTruncated ==
  \A e \in Exchanges :
    (ex[e].cancelled /\ ex[e].pc \in Terminal) =>
      LET t == TurnOf(messages, ex[e].id)
      IN /\ Present(ex[e].id) \/ RewrittenAfter(e)
         /\ Present(ex[e].id) =>
              /\ ~t.isStreaming
              /\ t.text = ex[e].textAtCancel \o StopMarker

\* how processBuffer is documented to read a line
IsDataLine(line) == StartsWith(Trim(line), DataPrefix)
DataStr(line) == SubSeq(Trim(line), Len(DataPrefix) + 1, Len(Trim(line)))
IsSentinel(line) == IsDataLine(line) /\ DataStr(line) = <<DONE>>
IsEvent(line) == IsDataLine(line) /\ ~IsSentinel(line) /\ JsonOk(DataStr(line))
IsMalformed(line) == IsDataLine(line) /\ ~IsSentinel(line) /\ ~JsonOk(DataStr(line))
EventOf(line) == JsonParse(DataStr(line))
IsDelta(line) == IsEvent(line) /\ EventOf(line).hasDelta

HasTag(c, tag) == \E i \in 1..(Len(c) - 1) : c[i] = tag[1] /\ c[i + 1] = tag[2]
TagFree(c) == c # <<>> /\ ~HasTag(c, StartTag) /\ ~HasTag(c, EndTag)

\* the callbacks the i-th handed line produced
RECURSIVE CallsBefore(_, _)
CallsBefore(x, i) == IF i <= 1 THEN 0 ELSE CallsBefore(x, i - 1) + x.seen[i - 1].ncalls
LineCalls(x, i) == SubSeq(x.calls, CallsBefore(x, i) + 1, CallsBefore(x, i) + x.seen[i].ncalls)
DeltaCalls(x, i) == SelectSeq(LineCalls(x, i), LAMBDA c : c.usage = 0)

\* C4: the tag state persists across the events of an exchange.  A tag-free
\* content that follows an event containing the start tag, with no event
\* containing the end tag in between, finds the state inside; inside, it is
\* emitted wholly as reasoning with an empty answer; outside, wholly as
\* answer; and it leaves the state as it was.  '<think>hello' followed by
\* ' world</think>answer' merges to reasoning 'hello world', answer 'answer'.
C4_TagStatePersists ==
  \A e \in Exchanges :
    LET x == ex[e]
        cont(j) == EventOf(x.seen[j].line).content
    IN /\ \A i \in DOMAIN x.seen :
            (IsDelta(x.seen[i].line) /\ TagFree(cont(i))) =>
              LET d == EventOf(x.seen[i].line)
                  dc == DeltaCalls(x, i)
                  opened == \E j \in 1..(i - 1) :
                              /\ IsDelta(x.seen[j].line)
                              /\ HasTag(cont(j), StartTag)
                              /\ \A k \in (j + 1)..(i - 1) :
                                   ~(IsDelta(x.seen[k].line) /\ HasTag(cont(k), EndTag))
              IN /\ opened => x.seen[i].before
                 /\ x.seen[i].after = x.seen[i].before
                 /\ Len(dc) = 1
                 /\ x.seen[i].before =>
                      dc[1].text = <<>> /\ dc[1].reasoning = ExplicitReasoning(d) \o d.content
                 /\ ~x.seen[i].before =>
                      dc[1].text = d.content /\ dc[1].reasoning = ExplicitReasoning(d)
       /\ (x.pc = "completed"
             /\ Handed(x) = <<DataLine(ContentOnly(Hello)), DataLine(ContentOnly(WorldAnswer))>>)
            => /\ TurnOf(messages, x.id).reasoning = <<"hello", " world">>
               /\ TurnOf(messages, x.id).text = <<"answer">>

\* the two events of the example have been merged, and a tag-free content
\* has been classified inside a span
C4_Witness ==
  \E e \in Exchanges :
    /\ ex[e].pc = "completed"
    /\ Handed(ex[e]) = <<DataLine(ContentOnly(Hello)), DataLine(ContentOnly(WorldAnswer))>>
    /\ TurnOf(messages, ex[e].id).reasoning = <<"hello", " world">>
    /\ TurnOf(messages, ex[e].id).text = <<"answer">>

\* the run of the decoder over lines, from a fresh exchange with turn id
RefRun(lines, id) ==
  ProcessLines(lines, [x |-> [IdleExchange EXCEPT !.id = id],
                       msgs |-> <<Turn(id, "model", <<>>, TRUE)>>])

\* C5: a data line whose payload fails to deserialize is dropped (with one
\* logged warning) and nothing else: the exchange does not fail, and its
\* callbacks, tag state and merged turn are those of the same lines with the
\* malformed ones left out.
C5_MalformedLineDropped ==
  \A e \in Exchanges :
    LET x == ex[e]
        ref == RefRun(SelectSeq(Handed(x), LAMBDA l : ~IsMalformed(l)), x.id)
    IN /\ (\E i \in DOMAIN x.seen : IsMalformed(x.seen[i].line)) => x.pc # "failed"
       /\ x.pc \in {"streaming", "completed"} =>
         /\ x.calls = ref.x.calls
         /\ x.isThinkingInContent = ref.x.isThinkingInContent
         /\ TurnOf(messages, x.id).text = ref.msgs[1].text
         /\ TurnOf(messages, x.id).reasoning = ref.msgs[1].reasoning
         /\ x.warnings = Len(SelectSeq(Handed(x), IsMalformed))

\* a malformed line was dropped and a later line of the same body produced
\* a callback
C5_Witness ==
  \E e \in Exchanges :
    /\ ex[e].pc = "completed"
    /\ \E i, j \in DOMAIN ex[e].seen :
         /\ i < j
         /\ IsMalformed(ex[e].seen[i].line)
         /\ ex[e].seen[i].warned
         /\ ex[e].seen[j].ncalls >= 1

\* C9: a line that, trimmed, does not start with "data: " produces no
\* callback, leaves the tag state alone and raises nothing (no warning, no
\* exception); so does the sentinel line "data: [DONE]".
C9_NonDataLinesIgnored ==
  \A e \in Exchanges :
    \A i \in DOMAIN ex[e].seen :
      LET s == ex[e].seen[i]
      IN (~IsDataLine(s.line) \/ IsSentinel(s.line)) =>
           s.ncalls = 0 /\ s.after = s.before /\ ~s.warned /\ ~s.thrown

\* a body made of a comment line and the sentinel has been read to its end
C9_Witness ==
  \E e \in Exchanges :
    /\ ex[e].pc = "completed"
    /\ \E i, j \in DOMAIN ex[e].seen :
         /\ ex[e].seen[i].line = <<CMT>>
         /\ IsSentinel(ex[e].seen[j].line)

\* the text of a reasoning_details element as documented: the element
\* itself if a string, else its t, text, content or reasoning key
RefItemText(item) ==
  IF item.kind = "str" THEN item.s
  ELSE IF item.t # <<>> THEN item.t
  ELSE IF item.text # <<>> THEN item.text
  ELSE IF item.content # <<>> THEN item.content
  ELSE item.reasoning

\* the element texts in list order, no separator
RECURSIVE RefListText(_)
RefListText(items) ==
  IF items = <<>> THEN <<>> ELSE RefItemText(Head(items)) \o RefListText(Tail(items))

\* the text the reasoning_details tier yields
RefTierText(rd) ==
  IF rd.kind = "list" THEN RefListText(rd.items)
  ELSE IF rd.kind = "str" THEN rd.s
  ELSE IF rd.kind = "obj" THEN FirstTruthy(<<rd.o.t, rd.o.text, rd.o.content>>)
  ELSE <<>>

\* C6: the explicit reasoning of an event is the text of the first tier, in
\* the order reasoning_details, reasoning, reasoning_content, whose text is
\* non-empty (a present tier with empty text falls through to the next);
\* tiers are never concatenated.
C6_FirstNonEmptyTierWins ==
  \A e \in Exchanges :
    \A i \in DOMAIN ex[e].seen :
      IsDelta(ex[e].seen[i].line) =>
        LET d == EventOf(ex[e].seen[i].line)
            want == FirstTruthy(<<RefTierText(d.rd), d.reasoning, d.rc>>)
            ib == InBand(d.content, ex[e].seen[i].before)
            dc == DeltaCalls(ex[e], i)
        IN (want # <<>>) => Len(dc) = 1 /\ dc[1].reasoning = want \o ib.derived

\* C7: when reasoning_details is a list, the explicit reasoning is its
\* element texts concatenated in list order with no separator: it leads the
\* emitted reasoning, and with no content the event is emitted, when that
\* text is non-empty, with exactly that reasoning and an empty answer (and
\* not at all when the text is empty).
C7_ListConcatenation ==
  \A e \in Exchanges :
    \A i \in DOMAIN ex[e].seen :
      LET line == ex[e].seen[i].line
      IN (IsDelta(line) /\ EventOf(line).rd.kind = "list") =>
           LET d == EventOf(line)
               want == RefListText(d.rd.items)
               ib == InBand(d.content, ex[e].seen[i].before)
               dc == DeltaCalls(ex[e], i)
           IN /\ want # <<>> => Len(dc) = 1
              /\ Len(dc) = 1 => dc[1].reasoning = want \o ib.derived
              /\ d.content = <<>> =>
                   IF want # <<>>
                   THEN dc = <<Callback(<<>>, want, 0)>> /\ ~dc[1].rnull
                   ELSE dc = <<>>

\* a two-element list (an object with a text key, then a string) and no
\* content has been emitted as the two texts in order
C7_Witness ==
  \E e \in Exchanges :
    \E i \in DOMAIN ex[e].seen :
      LET line == ex[e].seen[i].line
      IN /\ IsDelta(line)
         /\ EventOf(line).rd = RdList(<<ObjItem(<<>>, <<"x">>, <<>>, <<>>), StrItem(<<"s">>)>>)
         /\ EventOf(line).content = <<>>
         /\ DeltaCalls(ex[e], i) = <<Callback(<<>>, <<"x", "s">>, 0)>>

\* C8: the reasoning emitted for a delta event is its explicit-field
\* reasoning followed by its in-band reasoning; when either is non-empty the
\* event is emitted, and when both are, both appear, explicit first.
C8_ReasoningAdditive ==
  \A e \in Exchanges :
    \A i \in DOMAIN ex[e].seen :
      IsDelta(ex[e].seen[i].line) =>
        LET d == EventOf(ex[e].seen[i].line)
            explicit == ExplicitReasoning(d)
            ib == InBand(d.content, ex[e].seen[i].before)
            dc == DeltaCalls(ex[e], i)
        IN /\ Len(dc) <= 1
           /\ Len(dc) = 1 => dc[1].reasoning = explicit \o ib.derived
           /\ (explicit # <<>> \/ ib.derived # <<>>) => Len(dc) = 1

\* an event with a reasoning field and a start tag in its content has been
\* emitted with both texts
C8_Witness ==
  \E e \in Exchanges :
    \E i \in DOMAIN ex[e].seen :
      LET line == ex[e].seen[i].line
      IN /\ IsDelta(line)
         /\ EventOf(line).reasoning = <<"R">>
         /\ EventOf(line).content = StartTag \o <<"a">>
         /\ DeltaCalls(ex[e], i) = <<Callback(<<>>, <<"R", "a">>, 0)>>

\* C10: decoding carries no state from one exchange to the next.  Two
\* exchanges that completed over the same body delivered the same callbacks
\* and merged to the same answer and reasoning text, whatever ran between
\* them; and an exchange that starts reading has an empty frame buffer and
\* the tag state outside, however the exchanges before it ended.
C10_NoStateAcrossExchanges ==
  /\ \A e1, e2 \in Exchanges :
       (ex[e1].pc = "completed" /\ ex[e2].pc = "completed"
          /\ ex[e1].stream = ex[e2].stream) =>
         /\ ex[e1].calls = ex[e2].calls
         /\ (Present(ex[e1].id) /\ Present(ex[e2].id)) =>
              /\ TurnOf(messages, ex[e1].id).text = TurnOf(messages, ex[e2].id).text
              /\ TurnOf(messages, ex[e1].id).reasoning = TurnOf(messages, ex[e2].id).reasoning
  /\ \A e \in Exchanges :
       (ex[e].pc = "streaming" /\ ex[e].pos = 0) =>
         ex[e].buffer = <<>> /\ ~ex[e].isThinkingInContent

\* an exchange ended inside a reasoning span with a residual line in its
\* buffer, and a later exchange completed over the same body
C10_Witness ==
  \E e1, e2 \in Exchanges :
    /\ e1 < e2
    /\ ex[e1].pc = "completed"
    /\ ex[e1].isThinkingInContent
    /\ ex[e1].buffer # <<>>
    /\ ex[e2].pc = "completed"
    /\ ex[e2].stream = ex[e1].stream
    /\ ex[e2].calls # <<>>
    /\ Present(ex[e1].id)
    /\ Present(ex[e2].id)

\* the answer fragments, and the reasoning fragments, of a sequence of
\* callbacks, concatenated in order
RECURSIVE CallTexts(_)
CallTexts(calls) ==
  IF calls = <<>> THEN <<>> ELSE calls[1].text \o CallTexts(Tail(calls))

RECURSIVE CallReasonings(_)
CallReasonings(calls) ==
  IF calls = <<>> THEN <<>> ELSE calls[1].reasoning \o CallReasonings(Tail(calls))

\* the lines of the body that have arrived at exchange x, in arrival order
Arrived(x) ==
  LET sc == Scan(SubSeq(x.stream, 1, x.pos), <<>>, <<>>)
  IN sc.lines \o (IF x.pc = "completed" /\ NonBlank(sc.tail) THEN <<sc.tail>> ELSE <<>>)

\* C11: callbacks are delivered in the arrival order of their lines (the
\* callbacks of the i-th line that arrived come after those of every earlier
\* line and before those of every later one, and there are no others), and
\* after every step of a running or completed exchange its turn holds the
\* in-order concatenation of the answer fragments, and of the reasoning
\* fragments, delivered so far.
C11_InOrderDelivery ==
  \A e \in Exchanges :
    LET x == ex[e]
        t == TurnOf(messages, x.id)
    IN x.pc \in {"streaming", "completed"} =>
         /\ Handed(x) = Arrived(x)
         /\ Len(x.calls) = CallsBefore(x, Len(x.seen) + 1)
         /\ x.fullText = CallTexts(x.calls)
         /\ x.fullReasoning = CallReasonings(x.calls)
         /\ (Present(x.id) /\ x.calls # <<>>) =>
              /\ t.text = CallTexts(x.calls)
              /\ t.reasoning = CallReasonings(x.calls)

\* two lines have each delivered a reasoning fragment, and the turn holds
\* both in order
C11_Witness ==
  \E e \in Exchanges :
    /\ ex[e].pc \in {"streaming", "completed"}
    /\ Len(ex[e].seen) >= 2
    /\ ex[e].seen[1].ncalls = 1
    /\ ex[e].seen[2].ncalls = 1
    /\ ex[e].calls[1].reasoning = <<"hello">>
    /\ ex[e].calls[2].reasoning = <<" world">>
    /\ TurnOf(messages, ex[e].id).reasoning = <<"hello", " world">>

\* a request has been issued for exchange e
Requested(e) == ex[e].outbound # <<>>

\* C12: the outbound message list of a request is the system entry, then one
\* {role, content} entry per turn of the history in history order (a user
\* turn as 'user', an assistant turn as 'assistant', the content being the
\* turn's answer text), then the current user content: |history| + 2 entries.
\* For a send the history is the conversation as it was before the send.
C12_OutboundList ==
  \A e \in Exchanges :
    Requested(e) =>
      LET o == ex[e].outbound
          h == ex[e].history
      IN /\ Len(o) = Len(h) + 2
         /\ o[1] = [role |-> "system",
                    content |-> SystemPrompt(ex[e].mode, ex[e].customSystemPrompt)]
         /\ \A i \in DOMAIN h :
              /\ DOMAIN o[i + 1] = {"role", "content"}
              /\ o[i + 1].role = (IF h[i].role = "user" THEN "user" ELSE "assistant")
              /\ o[i + 1].content = h[i].text
         /\ o[Len(o)] = [role |-> "user", content |-> ex[e].currentMessage]
         /\ ex[e].kind = "send" => h = ex[e].before

\* a send whose history holds a user turn and a completed assistant turn
C12_Witness ==
  \E e \in Exchanges :
    /\ Requested(e)
    /\ ex[e].kind = "send"
    /\ Len(ex[e].history) = 2
    /\ ex[e].outbound[2] = [role |-> "user", content |-> <<"q">>]
    /\ ex[e].outbound[3] = [role |-> "assistant", content |-> <<"answer">>]
    /\ Len(ex[e].outbound) = 4

\* the history with the reasoning text of every turn replaced by r
WithReasoning(h, r) == [i \in DOMAIN h |-> [h[i] EXCEPT !.reasoning = r]]

\* C13: the reasoning text of prior turns does not reach the request: the
\* outbound list of every request is the one the same history would give
\* with any other reasoning text in its turns.
C13_ReasoningNotReplayed ==
  \A e \in Exchanges :
    Requested(e) =>
      \A r \in {<<>>, <<"other">>} :
        BuildMessages(WithReasoning(ex[e].history, r), ex[e].currentMessage,
                      ex[e].mode, ex[e].customSystemPrompt) = ex[e].outbound

\* a request whose history holds an assistant turn with reasoning text
C13_Witness ==
  \E e \in Exchanges :
    /\ Requested(e)
    /\ \E i \in DOMAIN ex[e].history :
         /\ ex[e].history[i].role = "model"
         /\ ex[e].history[i].reasoning = <<"hello", " world">>
         /\ ex[e].history[i].text = <<"answer">>

\* the descriptions of the errors an exchange can end with
ErrorTexts ==
  {<<"Error: ", m>> : m \in {"invalid API key", "Failed to fetch", "Response body is empty",
                             "server message", "API request failed with status N",
                             "body stream already read", "network error"}}

\* C14: whenever an exchange ends with an error (the service rejecting the
\* key, the fetch failing, an empty body, a non-success status, the read
\* failing), the step that ends it leaves the exchange failed with isLoading
\* false and its turn, if in the history, closed with an error description in
\* place of its answer text; the catch of triggerApiCall is where every such
\* error ends.
C14_ErrorEndsInFailed ==
  [][\A e \in Exchanges :
       (ex[e].pc # "failed" /\ ex'[e].pc = "failed") =>
         /\ ~isLoading'
         /\ \A i \in DOMAIN messages' :
              messages'[i].id = ex'[e].id =>
                /\ messages'[i].text \in ErrorTexts
                /\ ~messages'[i].isStreaming]_vars

\* the read failed after an answer fragment had been merged, and the turn
\* shows the error instead
C14_Witness ==
  \E e \in Exchanges :
    /\ ex[e].pc = "failed"
    /\ ex[e].fullText # <<>>
    /\ Present(ex[e].id)
    /\ TurnOf(messages, ex[e].id).text = <<"Error: ", "network error">>
    /\ ~TurnOf(messages, ex[e].id).isStreaming
    /\ ~isLoading

\* triggerApiCall has been called for exchange e
Triggered(e) == ex[e].pc # "idle"

\* C15: a send, edit or retry made while the API key is empty or shorter
\* than 5 characters issues no request: nothing is sent and nothing is
\* received for it.
C15_NoRequestWithoutCredential ==
  \A e \in Exchanges :
    (Triggered(e) /\ Len(ex[e].key) < MinKeyLen) =>
      /\ ~Requested(e)
      /\ ex[e].pc \in {"unconfigured", "failed"}
      /\ ex[e].stream = <<>>
      /\ ex[e].calls = <<>>

\* a send made with a short key, and a retry or an edit made after the key
\* was cleared in the settings panel
C15_Witness ==
  \E e1, e2 \in Exchanges :
    /\ ex[e1].kind = "send"
    /\ ex[e1].key = <<"s", "k">>
    /\ ex[e1].pc = "failed"
    /\ ex[e2].kind \in {"edit", "retry"}
    /\ ex[e2].key = <<>>
    /\ ex[e2].pc = "unconfigured"

\* C16: a send made while the credential is missing or malformed creates
\* no turn: the step that handles it leaves the conversation history as it
\* was.
C16_NoTurnOnConfigError ==
  [][\A e \in Exchanges :
       (~Triggered(e) /\ Triggered(e)' /\ ex'[e].kind = "send"
          /\ Len(ex'[e].key) < MinKeyLen) =>
         messages' = messages]_vars

\* no exchange is in flight or settling
NoneInFlight == \A e \in Exchanges : ex[e].pc \notin InFlight \cup {"aborting"}

\* C17: a stop after the exchanges have ended (completed, failed or aborted)
\* is a no-op: handleStopGeneration leaves the history (no marker on the
\* finished turn, isStreaming still false), isLoading and the controller
\* reference as they are; and while another exchange is in flight a stop
\* leaves every finished turn as it is.
C17_StopAfterEndIsNoOp ==
  /\ NoneInFlight => handleStopGeneration(Now) = Now
  /\ \A i \in DOMAIN messages :
       ~messages[i].isStreaming => handleStopGeneration(Now).messages[i] = messages[i]

\* an exchange has completed, its closed turn is the last of the history,
\* and nothing is in flight
C17_Witness ==
  /\ NoneInFlight
  /\ messages # <<>>
  /\ \E e \in Exchanges :
       /\ ex[e].pc = "completed"
       /\ messages[Len(messages)].id = ex[e].id
       /\ messages[Len(messages)].text = <<"answer">>
       /\ ~messages[Len(messages)].isStreaming

\* C18: once an assistant turn's isStreaming is false, its answer text, its
\* reasoning text and its usage stay as they are in every later state in
\* which the turn is still in the history (an edit or a retry may remove it):
\* no callback, finalize step or error handler alters it.
C18_ClosedTurnImmutable ==
  [][\A i \in DOMAIN messages :
       (messages[i].role = "model" /\ ~messages[i].isStreaming) =>
         \A j \in DOMAIN messages' :
           messages'[j].id = messages[i].id =>
             /\ messages'[j].text = messages[i].text
             /\ messages'[j].reasoning = messages[i].reasoning
             /\ messages'[j].usage = messages[i].usage]_vars

\* a callback that carries an answer fragment or a reasoning fragment
Qualifying(cb) == cb.text # <<>> \/ cb.reasoning # <<>>

\* C19: the time to the first token is recorded once per exchange, at the
\* first callback that carries an answer or a reasoning fragment (the time of
\* a callback being its position among the exchange's callbacks): before such
\* a callback nothing is recorded, a usage-only callback records nothing, and
\* later callbacks leave the recorded time as it is.
C19_FirstTokenOnce ==
  \A e \in Exchanges :
    LET x == ex[e]
        q == {i \in DOMAIN x.calls : Qualifying(x.calls[i])}
    IN (x.pc \in {"streaming", "completed"} /\ Present(x.id)) =>
         /\ x.firstTokenReceived = (q # {})
         /\ q = {} => TurnOf(messages, x.id).thinkingTime = 0
         /\ q # {} =>
              TurnOf(messages, x.id).thinkingTime = CHOOSE i \in q : \A j \in q : i <= j

\* a usage-only callback, then two callbacks with fragments: the time
\* recorded is that of the second callback
C19_Witness ==
  \E e \in Exchanges :
    /\ ex[e].pc = "completed"
    /\ Len(ex[e].calls) = 3
    /\ ~Qualifying(ex[e].calls[1])
    /\ ex[e].calls[1].usage # 0
    /\ Qualifying(ex[e].calls[2])
    /\ Qualifying(ex[e].calls[3])
    /\ TurnOf(messages, ex[e].id).thinkingTime = 2

\* C20: at most one exchange is in flight (sending, reading an error body,
\* streaming or settling an abort) at any time, so the history has a single
\* writer and the controller reference a single owner.
C20_SingleExchangeInFlight ==
  Cardinality({e \in Exchanges : ex[e].pc \in InFlight \cup {"aborting"}}) <= 1

\* the preamble of each mode, the general one for any other value
RefPreamble(m) ==
  LET table == [math |-> <<<<"base">>, <<"math">>>>,
                coding |-> <<<<"base">>, <<"coding">>>>,
                logic |-> <<<<"base">>, <<"logic">>>>,
                fengshui |-> <<<<"fengshui">>>>]
  IN IF m \in DOMAIN table THEN table[m] ELSE <<<<"base">>, <<"general">>>>

\* C21: the system entry of a request is the custom system prompt, exactly
\* as configured and with no mode text merged in, when that prompt has a
\* character that is not whitespace; when it is empty or whitespace only,
\* the system entry is the default preamble of the chosen mode.
C21_CustomPromptOverrides ==
  \A e \in Exchanges :
    Requested(e) =>
      LET custom == ex[e].customSystemPrompt
          sys == ex[e].outbound[1]
      IN /\ sys.role = "system"
         /\ NonBlank(custom) => sys.content = custom
         /\ ~NonBlank(custom) => sys.content = RefPreamble(ex[e].mode)

\* one request went out in the math mode with a padded custom prompt, and
\* another in the fengshui mode with a whitespace-only one
C21_Witness ==
  \E e1, e2 \in Exchanges :
    /\ Requested(e1)
    /\ ex[e1].mode = "math"
    /\ ex[e1].customSystemPrompt = <<SP, <<"custom">>, SP>>
    /\ ex[e1].outbound[1].content = <<SP, <<"custom">>, SP>>
    /\ Requested(e2)
    /\ ex[e2].mode = "fengshui"
    /\ ex[e2].customSystemPrompt = <<SP>>
    /\ ex[e2].outbound[1].content = <<<<"fengshui">>>>

\* the transitions of the state machine of an exchange; reading the body of
\* a non-success response ("errbody") is part of Sending, "aborting" is the
\* cancelled exchange before its rejected await is handled, and the service
\* rejecting the key takes the exchange to Failed within the call
Steps ==
  [idle |-> {"sending", "failed", "unconfigured"},
   sending |-> {"streaming", "errbody", "failed", "aborting"},
   errbody |-> {"failed", "aborting"},
   streaming |-> {"streaming", "completed", "failed", "aborting"},
   aborting |-> {"aborted", "failed"},
   completed |-> {}, aborted |-> {}, failed |-> {}, unconfigured |-> {}]

\* C22: an exchange moves only along Idle -> Sending -> Streaming ->
\* {Completed, Aborted, Failed}; a terminal state is never left; the step
\* that reaches a terminal state leaves isLoading false, the controller
\* reference cleared and the exchange's turn, if in the history, with
\* isStreaming false; and over a transport that eventually ends, errors or
\* is cancelled, an exchange that has started eventually reaches a terminal
\* state.
C22_ExchangeTerminates ==
  /\ [][\A e \in Exchanges :
          /\ ex'[e].pc # ex[e].pc => ex'[e].pc \in Steps[ex[e].pc]
          /\ (ex[e].pc \notin Terminal /\ ex'[e].pc \in Terminal) =>
               /\ ~isLoading'
               /\ abortControllerRef' = 0
               /\ \A i \in DOMAIN messages' :
                    messages'[i].id = ex'[e].id => ~messages'[i].isStreaming]_vars
  /\ \A e \in Exchanges :
       (ex[e].pc \in InFlight \cup {"aborting"}) ~> (ex[e].pc \in Terminal)

\* one exchange was cancelled while streaming and has ended aborted, another
\* has completed; both turns are closed and nothing is loading
C22_Witness ==
  \E e1, e2 \in Exchanges :
    /\ ex[e1].pc = "aborted"
    /\ ex[e1].awaiting = "streaming"
    /\ ex[e2].pc = "completed"
    /\ Present(ex[e1].id) /\ ~TurnOf(messages, ex[e1].id).isStreaming
    /\ Present(ex[e2].id) /\ ~TurnOf(messages, ex[e2].id).isStreaming
    /\ ~isLoading
    /\ abortControllerRef = 0

\* the position of the first occurrence of a tag in a content that has one,
\* and the text before and after that occurrence
FirstTag(c, tag) ==
  CHOOSE i \in 1..(Len(c) - 1) :
    /\ c[i] = tag[1] /\ c[i + 1] = tag[2]
    /\ \A j \in 1..(i - 1) : ~(c[j] = tag[1] /\ c[j + 1] = tag[2])
BeforeTag(c, tag) == SubSeq(c, 1, FirstTag(c, tag) - 1)
AfterTag(c, tag) == SubSeq(c, FirstTag(c, tag) + 2, Len(c))

\* C23: for a content that contains a start tag (also one with several start
\* tags, or with an end tag after the start tag) the answer fragment is the
\* text before the first start tag and the in-band reasoning is the whole
\* text after it, to the end of the content; the event is emitted when
\* either, or the explicit reasoning, is non-empty; and the tag state
\* becomes inside.
C23_StartTagSplitsContent ==
  \A e \in Exchanges :
    \A i \in DOMAIN ex[e].seen :
      LET line == ex[e].seen[i].line
      IN (IsDelta(line) /\ HasTag(EventOf(line).content, StartTag)) =>
           LET d == EventOf(line)
               answer == BeforeTag(d.content, StartTag)
               derived == AfterTag(d.content, StartTag)
               explicit == ExplicitReasoning(d)
               dc == DeltaCalls(ex[e], i)
           IN /\ ex[e].seen[i].after
              /\ (answer # <<>> \/ derived # <<>> \/ explicit # <<>>) =>
                   dc = <<Callback(answer, explicit \o derived, 0)>>

\* C24: for a content that contains an end tag and no start tag (also one
\* with several end tags), whatever the tag state, the in-band reasoning is
\* the text before the first end tag and the answer fragment is the whole
\* text after it; the event is emitted when either, or the explicit
\* reasoning, is non-empty; and the tag state becomes outside.
C24_EndTagSplitsContent ==
  \A e \in Exchanges :
    \A i \in DOMAIN ex[e].seen :
      LET line == ex[e].seen[i].line
      IN (IsDelta(line) /\ HasTag(EventOf(line).content, EndTag)
            /\ ~HasTag(EventOf(line).content, StartTag)) =>
           LET d == EventOf(line)
               derived == BeforeTag(d.content, EndTag)
               answer == AfterTag(d.content, EndTag)
               explicit == ExplicitReasoning(d)
               dc == DeltaCalls(ex[e], i)
           IN /\ ~ex[e].seen[i].after
              /\ (answer # <<>> \/ derived # <<>> \/ explicit # <<>>) =>
                   dc = <<Callback(answer, explicit \o derived, 0)>>

\* C25: a delta event triggers no callback if and only if its final
\* reasoning and its final answer are both empty and its record carries no
\* usage; an event whose content is exactly the start tag (and that has
\* nothing else) triggers no callback and still leaves the tag state inside.
C25_SuppressedOnlyWhenEmpty ==
  \A e \in Exchanges :
    \A i \in DOMAIN ex[e].seen :
      LET sn == ex[e].seen[i]
      IN IsDelta(sn.line) =>
           LET d == EventOf(sn.line)
               explicit == ExplicitReasoning(d)
               ib == InBand(d.content, sn.before)
           IN /\ sn.ncalls = 0 <=>
                   /\ FinalReasoning(explicit, ib.derived) = <<>>
                   /\ ib.content = <<>>
                   /\ d.usage = 0
              /\ (d.content = StartTag /\ explicit = <<>> /\ d.usage = 0) =>
                   sn.ncalls = 0 /\ sn.after

\* an event whose content is the start tag alone was passed over without a
\* callback, and the next event, a plain text, was emitted as reasoning
C25_Witness ==
  \E e \in Exchanges :
    /\ Len(ex[e].seen) = 2
    /\ ex[e].seen[1].line = DataLine(ContentOnly(StartTag))
    /\ ex[e].seen[1].ncalls = 0
    /\ ~ex[e].seen[1].before
    /\ ex[e].seen[1].after
    /\ ex[e].seen[2].line = DataLine(ContentOnly(<<"a">>))
    /\ ex[e].calls = <<Callback(<<>>, <<"a">>, 0)>>

\* C26: a line produces at most one callback; a record that carries a usage
\* report yields the callback of that report alone, its delta not being
\* delivered as a second callback for the same line.
C26_OneCallbackPerLine ==
  \A e \in Exchanges :
    \A i \in DOMAIN ex[e].seen :
      LET sn == ex[e].seen[i]
      IN /\ sn.ncalls <= 1
         /\ (IsEvent(sn.line) /\ EventOf(sn.line).usage # 0) =>
              LineCalls(ex[e], i) = <<Callback(<<>>, <<>>, EventOf(sn.line).usage)>>

\* C27: the sentinel line ends the stream: a line handed to processBuffer
\* after the sentinel produces no callback and leaves the turn (through the
\* tag state and the accumulated texts) as it was.
C27_NothingAfterSentinel ==
  \A e \in Exchanges :
    \A i, j \in DOMAIN ex[e].seen :
      (i < j /\ IsSentinel(ex[e].seen[i].line)) =>
        /\ ex[e].seen[j].ncalls = 0
        /\ ex[e].seen[j].after = ex[e].seen[j].before

\* the positions of the line terminators in a text, and the text after the
\* last of them (the whole text when there is none)
Terminators(t) == {i \in DOMAIN t : t[i] = NL}
AfterLastTerminator(t) ==
  IF Terminators(t) = {} THEN t
  ELSE SubSeq(t, (CHOOSE i \in Terminators(t) : \A j \in Terminators(t) : j <= i) + 1, Len(t))

\* C28: between chunk arrivals the frame buffer holds no line terminator: it
\* is the text received after the last terminator so far (empty when the
\* input received ends with one), and while the body is being read every
\* terminated line has been handed to processBuffer, one call per terminator.
C28_NoCompleteLineAtRest ==
  \A e \in Exchanges :
    LET x == ex[e]
        received == SubSeq(x.stream, 1, x.pos)
    IN /\ Terminators(x.buffer) = {}
       /\ x.buffer = AfterLastTerminator(received)
       /\ x.pc = "streaming" => Len(x.seen) = Cardinality(Terminators(received))

\* two lines have arrived in full and been handed over, the buffer is empty,
\* and the body has still to end
C28_Witness ==
  \E e \in Exchanges :
    /\ ex[e].pc = "streaming"
    /\ Cardinality(Terminators(SubSeq(ex[e].stream, 1, ex[e].pos))) = 2
    /\ Len(ex[e].seen) = 2
    /\ ex[e].seen[2].ncalls >= 1
    /\ ex[e].buffer = <<>>

\* the residual of a completed exchange is its last handed line, handed
\* once after the terminated lines of the body
FlushedOnce(x) ==
  /\ Len(x.seen) = Cardinality(Terminators(x.stream)) + 1
  /\ x.seen[Len(x.seen)].line = x.buffer

\* C29 as stated: at end-of-input every non-empty residual is passed to
\* processBuffer exactly once, as one final line.
C29_ResidualFlushed ==
  \A e \in Exchanges :
    (ex[e].pc = "completed" /\ ex[e].buffer # <<>>) => FlushedOnce(ex[e])

\* C29, amended: at end-of-input a residual with a character that is not
\* whitespace is passed to processBuffer exactly once, as one final line,
\* before the exchange completes; an empty or whitespace-only residual is
\* not passed, and the lines handed over are the terminated ones alone.
C29_NonBlankResidualFlushed ==
  \A e \in Exchanges :
    ex[e].pc = "completed" =>
      IF NonBlank(ex[e].buffer)
      THEN FlushedOnce(ex[e])
      ELSE Len(ex[e].seen) = Cardinality(Terminators(ex[e].stream))

\* a body ended with an unterminated data line after a terminated one: the
\* residual was handed over last and its fragment reached the turn
C29_Witness ==
  \E e \in Exchanges :
    /\ ex[e].pc = "completed"
    /\ ex[e].buffer = DataLine(ContentOnly(<<"a">>))
    /\ Len(ex[e].seen) = 2
    /\ ex[e].seen[2].line = ex[e].buffer
    /\ ex[e].seen[2].ncalls = 1
    /\ ex[e].seen[1].ncalls = 1
    /\ Len(TurnOf(messages, ex[e].id).text) = 2

\* the contents c1, c2 of two consecutive events carry a tag cut in two:
\* c1 ends with its first half, c2 starts with its second, and neither
\* holds a whole tag
SplitAcross(c1, c2) ==
  /\ TagFree(c1) /\ TagFree(c2)
  /\ \E tag \in {StartTag, EndTag} : c1[Len(c1)] = tag[1] /\ c2[1] = tag[2]

\* C30: a start or end tag cut in two by the boundary between two events is
\* not recognised: both events are classified by the tag state in force
\* before the first of them, which neither changes, and the characters of
\* the tag are emitted as ordinary text (answer outside a span, reasoning
\* inside one).
C30_SplitTagNotRecognised ==
  \A e \in Exchanges :
    \A i \in DOMAIN ex[e].seen :
      LET x == ex[e]
          j == i + 1
      IN (j \in DOMAIN x.seen /\ IsDelta(x.seen[i].line) /\ IsDelta(x.seen[j].line)
            /\ SplitAcross(EventOf(x.seen[i].line).content, EventOf(x.seen[j].line).content)) =>
           LET state == x.seen[i].before
               c1 == EventOf(x.seen[i].line).content
               c2 == EventOf(x.seen[j].line).content
               emitted(c) == IF state THEN Callback(<<>>, c, 0) ELSE Callback(c, <<>>, 0)
           IN /\ x.seen[i].after = state
              /\ x.seen[j].before = state
              /\ x.seen[j].after = state
              /\ LineCalls(x, i) = <<emitted(c1)>>
              /\ LineCalls(x, j) = <<emitted(c2)>>

\* inside a reasoning span an end tag arrived cut in two: both pieces went
\* to the reasoning, tag characters included, and the span is still open
C30_Witness ==
  \E e \in Exchanges :
    /\ ex[e].pc = "completed"
    /\ Len(ex[e].seen) = 3
    /\ ex[e].seen[2].before
    /\ EventOf(ex[e].seen[2].line).content = <<"a", EndTag[1]>>
    /\ EventOf(ex[e].seen[3].line).content = <<EndTag[2], "b">>
    /\ ex[e].isThinkingInContent
    /\ TurnOf(messages, ex[e].id).reasoning = <<"a", EndTag[1], EndTag[2], "b">>
    /\ TurnOf(messages, ex[e].id).text = <<>>

\* ---------------------------------------------------------------------------
\* C31  the message shown for a non-success status

\* the message the turn is to carry for each kind of error body: the
\* envelope's message, the raw text of a body that is not JSON, the generic
\* status message
ServerMessage(kind) ==
  CASE kind = "envelope" -> "server message"
    [] kind = "notjson" -> "raw response text"
    [] OTHER -> "API request failed with status N"

\* C31: an exchange that failed on a non-success status leaves its turn closed
\* with "Error: " followed by the envelope's message when the body is a JSON
\* envelope carrying one, by the raw response text when the body is not JSON,
\* and by the generic status message otherwise.
C31_ErrorMessageOrder ==
  \A e \in Exchanges :
    (ex[e].pc = "failed" /\ ex[e].errorBody # "none" /\ Present(ex[e].id))
      => /\ TurnOf(messages, ex[e].id).text = <<"Error: ", ServerMessage(ex[e].errorBody)>>
         /\ ~TurnOf(messages, ex[e].id).isStreaming

\* the same statement for the bodies that parse as JSON
C31_JsonBodies ==
  \A e \in Exchanges :
    (ex[e].pc = "failed" /\ ex[e].errorBody \in {"envelope", "nomessage"} /\ Present(ex[e].id))
      => /\ TurnOf(messages, ex[e].id).text = <<"Error: ", ServerMessage(ex[e].errorBody)>>
         /\ ~TurnOf(messages, ex[e].id).isStreaming

\* ---------------------------------------------------------------------------
\* C32  classification loses no content

\* c without the tag delimiters
RECURSIVE WithoutTags(_)
WithoutTags(c) ==
  IF Len(c) < 2 THEN c
  ELSE IF SubSeq(c, 1, 2) \in {StartTag, EndTag} THEN WithoutTags(SubSeq(c, 3, Len(c)))
  ELSE <<c[1]>> \o WithoutTags(Tail(c))

\* the answer fragment and the in-band reasoning handed over for event i of
\* exchange x (both empty when the event triggered no callback)
Emitted(x, i) ==
  LET dc == DeltaCalls(x, i)
      explicit == ExplicitReasoning(EventOf(x.seen[i].line))
  IN IF dc = <<>> THEN [answer |-> <<>>, derived |-> <<>>]
     ELSE [answer |-> dc[1].text,
           derived |-> SubSeq(dc[1].reasoning, Len(explicit) + 1, Len(dc[1].reasoning))]

\* C32: for every delta event, the characters of the content other than
\* those of the tag delimiters are exactly the characters of the answer
\* fragment and of the in-band reasoning, the one followed by the other.
C32_NoContentLost ==
  \A e \in Exchanges :
    \A i \in DOMAIN ex[e].seen :
      IsDelta(ex[e].seen[i].line) =>
        LET c == WithoutTags(EventOf(ex[e].seen[i].line).content)
            a == WithoutTags(Emitted(ex[e], i).answer)
            r == WithoutTags(Emitted(ex[e], i).derived)
        IN c = a \o r \/ c = r \o a

\* the same statement for the contents in which no tag occurs twice
C32_NoRepeatedTag ==
  \A e \in Exchanges :
    \A i \in DOMAIN ex[e].seen :
      (IsDelta(ex[e].seen[i].line)
         /\ \A tag \in {StartTag, EndTag} :
              HasTag(EventOf(ex[e].seen[i].line).content, tag) =>
                ~HasTag(AfterTag(EventOf(ex[e].seen[i].line).content, tag), tag)) =>
        LET c == WithoutTags(EventOf(ex[e].seen[i].line).content)
            a == WithoutTags(Emitted(ex[e], i).answer)
            r == WithoutTags(Emitted(ex[e], i).derived)
        IN c = a \o r \/ c = r \o a

\* ---------------------------------------------------------------------------
\* C33  an exchange writes only to its own turn

\* a step of exchange e that can update the list: a read with its callbacks,
\* the end of the body with its flush and the finalize, an error, the
\* continuation of an abort
ExchangeUpdate(e) ==
  \/ \E k \in 1..Len(ex[e].stream) : ReadChunk(e, k)
  \/ ReadDone(e)
  \/ ReadFails(e)
  \/ \E msg \in {"Failed to fetch", "Response body is empty"} : FetchFails(e, msg)
  \/ \E kind \in ErrorBodies : ErrorBody(e, kind)
  \/ AbortSettles(e)

\* the list keeps its turns and their order, and every turn other than the
\* one with this id keeps every field
OnlyTurnChanged(id) ==
  /\ Len(messages') = Len(messages)
  /\ \A i \in DOMAIN messages :
       /\ messages'[i].id = messages[i].id
       /\ messages[i].id # id => messages'[i] = messages[i]

Ids(msgs) == {msgs[i].id : i \in DOMAIN msgs}

\* the position of the turn with this id in a list that holds it
PlaceOf(msgs, id) == CHOOSE i \in DOMAIN msgs : msgs[i].id = id

Markers(text) == Len(SelectSeq(text, LAMBDA t : t = StopMarker[1]))

\* the turn with this id holds more markers after the step than before it
GainsMarker(id) ==
  Markers(TurnOf(messages', id).text) > Markers(TurnOf(messages, id).text)

====
